---------------------------- MODULE Spec2Model ----------------------------
(***************************************************************************)
(* A model of the Cross::Workcell proxy of freecad.cross                   *)
(* (src/freecad/cross/workcell.py): the joint endpoint enumerations        *)
(* (set_joint_enum), the kinematic placement propagation                   *)
(* (place_xacro_objects) and the URDF export (export_urdf), driven by the  *)
(* host document's operations.                                             *)
(***************************************************************************)
EXTENDS Integers, Sequences, FiniteSets, TLC

(***************************************************************************)
(* Bounds and universes.                                                   *)
(***************************************************************************)
\* Longest Group the host builds by adding objects one at a time.
MaxGroup == 3
\* Most links a xacro object defines.
MaxLinks == 2
\* Translations of a placement are taken modulo TransMod.
TransMod == 3

\* The document objects a workcell may group.
XacroObjs == {"xa", "xb", "xc"}
Joints == {"j1", "j2"}
Objects == XacroObjs \cup Joints
\* The objects the host creates one at a time under Spec.
SpecObjects == {"xa", "xb", "j1"}

\* A missing reference (Python's None).
None == "None"

\* The names of the links each xacro object may define, the root link first.
LinkTable ==
    [x \in XacroObjs |->
        CASE x = "xa" -> <<"a0", "a1", "a2">>
          [] x = "xb" -> <<"b0", "b1", "b2">>
          [] OTHER    -> <<"c0", "c1", "c2">>]

AllLinks == UNION {{LinkTable[x][i] : i \in 1..Len(LinkTable[x])} : x \in XacroObjs}

RootNames == {"world", "base"}

(***************************************************************************)
(* Placements: a rotation and a translation.  The rotation is a half turn  *)
(* or none (r), the translation an integer modulo TransMod (t); the        *)
(* product is that of rigid transforms, (R1, t1) * (R2, t2) =              *)
(* (R1 R2, t1 + R1 t2), and it does not commute.                           *)
(***************************************************************************)
Placements == [r : 0..1, t : 0..(TransMod - 1)]

Identity == [r |-> 0, t |-> 0]

Mul(p, q) ==
    [r |-> (p.r + q.r) % 2,
     t |-> (p.t + (IF p.r = 0 THEN q.t ELSE TransMod - q.t)) % TransMod]

\* The placements the host's operations choose from, besides the identity.
Flip == [r |-> 1, t |-> 0]
Shift == [r |-> 0, t |-> 1]

VARIABLES
    ready,          \* the proxy holds its object and the object its properties
    Group,          \* workcell.Group, a sequence of objects
    RootLink,       \* workcell.RootLink
    OutputPath,     \* workcell.OutputPath, a sequence of path components
    nlinks,         \* number of links each xacro object defines
    xoPlacement,    \* Placement of each xacro object
    xoInclude,      \* filenames of the includes of each xacro object's fragment
    linkPlacement,  \* Placement of each link
    jParentEnum,    \* enumeration of each joint's Parent
    jParent,        \* selected Parent of each joint
    jChildEnum,     \* enumeration of each joint's Child
    jChild,         \* selected Child of each joint
    jOrigin,        \* Origin of each joint
    jAct,           \* actuation placement of each joint
    jPlacement,     \* Placement of each joint
    writes,         \* property writes of the last handler: <<object, property,
                    \* value selected before the write (enumerations)>>
    lastOp,         \* the last operation that ran
    rerun,          \* the last handler ran right after a run of the same code
    warning,        \* the warning the last operation gave the user, "" if none
    dirs,           \* directories of the filesystem
    files,          \* files of the filesystem
    robot_et        \* the <robot> tree the last operation serialized

vars == <<ready, Group, RootLink, OutputPath, nlinks, xoPlacement, xoInclude,
          linkPlacement, jParentEnum, jParent, jChildEnum, jChild, jOrigin,
          jAct, jPlacement, writes, lastOp, rerun, warning, dirs, files,
          robot_et>>

wcVars == <<ready, Group, RootLink, OutputPath>>
xoVars == <<nlinks, xoPlacement, xoInclude, linkPlacement>>
enumVars == <<jParentEnum, jParent, jChildEnum, jChild>>
jointGeomVars == <<jOrigin, jAct>>
fsVars == <<dirs, files>>

(***************************************************************************)
(* Helpers on sequences.                                                   *)
(***************************************************************************)
Elems(s) == {s[i] : i \in 1..Len(s)}

RECURSIVE Filter(_, _)
Filter(s, S) ==
    IF s = <<>> THEN <<>>
    ELSE IF Head(s) \in S THEN <<Head(s)>> \o Filter(Tail(s), S)
    ELSE Filter(Tail(s), S)

(***************************************************************************)
(* The collaborators' accessors.                                           *)
(***************************************************************************)
\* ProxyBase.is_ready
is_ready == ready

\* XacroObject.Proxy.root_link
root_link(x) == LinkTable[x][1]

\* XacroObject.Proxy.get_link_names()
get_link_names(x) == SubSeq(LinkTable[x], 1, nlinks[x])

\* XacroObject.Proxy.has_link(name)
has_link(x, name) == name \in Elems(get_link_names(x))

\* Workcell.get_xacro_objects
get_xacro_objects == IF ~is_ready THEN <<>> ELSE Filter(Group, XacroObjs)

\* Workcell.get_joints
get_joints == IF ~is_ready THEN <<>> ELSE Filter(Group, Joints)


(***************************************************************************)
(* set_joint_enum: the enumerations of Parent and Child of all joints.     *)
(***************************************************************************)
\* child_links: list[str] = ['']
child_links_init == <<"">>

\* The root link left out of the parents.
parent_links_no_root == <<"">>

\* The root link put before the unset value.
parent_links_root_first == <<RootLink, "">>

\* parent_links: list[str] = ['', self.workcell.RootLink]
parent_links_init == <<"", RootLink>>

\* The loop over the xacro objects: appends each root link to child_links
\* and each object's link names to parent_links.
RECURSIVE collect_links(_, _)
collect_links(xos, acc) ==
    IF xos = <<>> THEN acc
    ELSE collect_links(Tail(xos),
            [child_links  |-> Append(acc.child_links, root_link(Head(xos))),
             parent_links |-> acc.parent_links \o get_link_names(Head(xos))])

joint_links ==
    collect_links(get_xacro_objects,
        [child_links |-> child_links_init, parent_links |-> parent_links_init])

\* The comparison left out: the enumeration is always written.
enum_always(old, new) == TRUE

\* joint.getEnumerationsOfProperty(prop) != links
enum_differs(old, new) == old # new

\* The value reset to the first choice whatever it was.
enum_value_reset(value, links) == links[1]

\* The value of an enumeration property after `joint.Prop = links`: the old
\* value when it is in the new enumeration, else the first choice.
enum_value_after(value, links) ==
    IF value \in Elems(links) THEN value ELSE links[1]

\* The joints' enumeration state, and the writes made to it.
EnumState ==
    [pe |-> jParentEnum, p |-> jParent, ce |-> jChildEnum, c |-> jChild,
     w |-> {}]

\* The body of the loop over the joints, for one joint.
set_one_joint_enum(st, joint, links) ==
    LET st1 == IF enum_differs(st.ce[joint], links.child_links)
               THEN [st EXCEPT
                        !.ce[joint] = links.child_links,
                        !.c[joint] = enum_value_after(@, links.child_links),
                        !.w = @ \cup {<<joint, "Child", st.c[joint]>>}]
               ELSE st
    IN  IF enum_differs(st1.pe[joint], links.parent_links)
        THEN [st1 EXCEPT
                 !.pe[joint] = links.parent_links,
                 !.p[joint] = enum_value_after(@, links.parent_links),
                 !.w = @ \cup {<<joint, "Parent", st.p[joint]>>}]
        ELSE st1

RECURSIVE set_joints_enum(_, _, _)
set_joints_enum(st, joints, links) ==
    IF joints = <<>> THEN st
    ELSE set_joints_enum(set_one_joint_enum(st, Head(joints), links),
                         Tail(joints), links)

\* Workcell.set_joint_enum, from the current state.
set_joint_enum ==
    IF ~is_ready THEN EnumState
    ELSE set_joints_enum(EnumState, get_joints, joint_links)

(***************************************************************************)
(* Attachments and chains (wb_utils).  An attachment pairs a xacro object  *)
(* with the joint that attaches it and the link it is attached to.  p and  *)
(* c are the joints' selected Parent and Child.                            *)
(***************************************************************************)
\* The joint whose Child is the root link of x (the last one in the list).
RECURSIVE attached_by(_, _, _, _)
attached_by(x, joints, c, found) ==
    IF joints = <<>> THEN found
    ELSE attached_by(x, Tail(joints), c,
            IF c[Head(joints)] = root_link(x) THEN Head(joints) ELSE found)

\* The other xacro object that has the link named `parent`.
RECURSIVE attached_to_xo(_, _, _, _)
attached_to_xo(x, xos, parent, found) ==
    IF xos = <<>> THEN found
    ELSE attached_to_xo(x, Tail(xos), parent,
            IF Head(xos) # x /\ has_link(Head(xos), parent)
            THEN Head(xos) ELSE found)

attachment(x, xos, joints, p, c) ==
    LET by == attached_by(x, joints, c, None)
        to_xo == IF by = None THEN None
                 ELSE attached_to_xo(x, xos, p[by], None)
    IN  [xacro_object |-> x,
         attached_by  |-> by,
         attached_to  |-> IF to_xo = None THEN None ELSE p[by],
         attached_to_xo |-> to_xo]

\* One attachment per xacro object, in the order of the xacro objects.
get_xacro_object_attachments(xos, joints, p, c) ==
    [i \in 1..Len(xos) |-> attachment(xos[i], xos, joints, p, c)]

\* The attachment of xacro object x among the attachments.
attachment_of(attachments, x) ==
    attachments[CHOOSE i \in 1..Len(attachments) :
                    attachments[i].xacro_object = x]

\* The attachments from the root to that of a; <<>> when it hangs on a cycle.
RECURSIVE chain_to(_, _, _)
chain_to(attachments, a, fuel) ==
    IF a.attached_to_xo = None THEN <<a>>
    ELSE IF fuel = 0 THEN <<>>
    ELSE LET up == chain_to(attachments,
                            attachment_of(attachments, a.attached_to_xo),
                            fuel - 1)
         IN  IF up = <<>> THEN <<>> ELSE Append(up, a)

\* A xacro object no other xacro object is attached to.
is_leaf(attachments, x) ==
    \A i \in 1..Len(attachments) : attachments[i].attached_to_xo # x

RECURSIVE chains_of(_, _)
chains_of(attachments, k) ==
    IF k > Len(attachments) THEN <<>>
    ELSE LET ch == chain_to(attachments, attachments[k], Len(attachments))
             more == chains_of(attachments, k + 1)
         IN  IF is_leaf(attachments, attachments[k].xacro_object) /\ ch # <<>>
             THEN <<ch>> \o more ELSE more

\* One chain per leaf xacro object, walked from the root outward.
get_xacro_chains(xos, joints, p, c) ==
    chains_of(get_xacro_object_attachments(xos, joints, p, c), 1)

(***************************************************************************)
(* place_xacro_objects: the Placement of all xacro objects.                *)
(***************************************************************************)
\* freecad_utils.is_same_placement
is_same_placement(p1, p2) == p1 = p2

\* placement = fc.Placement()
chain_start == Identity

\* placement *= link.Placement
times_link(placement, link) == Mul(placement, linkPlacement[link])

\* The product taken the other way round.
times_origin_reversed(placement, joint) == Mul(jOrigin[joint], placement)

\* placement *= joint.Origin
times_origin(placement, joint) == Mul(placement, jOrigin[joint])

\* placement *= joint.Proxy.get_actuation_placement()
times_actuation(placement, joint) == Mul(placement, jAct[joint])

\* The comparison left out: the joint's Placement is always written.
joint_placement_always(old, new) == TRUE

\* joint.Placement != placement
joint_placement_differs(old, new) == old # new

\* not is_same_placement(xo.Placement, placement)
xo_placement_differs(old, new) == ~is_same_placement(old, new)

\* The placements written, and the writes made.
PlaceState == [xo |-> xoPlacement, jp |-> jPlacement, w |-> {}]

\* The loop over the attachments of one chain, from attachment k on.
RECURSIVE place_chain(_, _, _, _)
place_chain(st, chain, k, placement) ==
    IF k > Len(chain) THEN st
    ELSE
    LET xo == chain[k].xacro_object
        joint == chain[k].attached_by
        link == chain[k].attached_to
        p1 == IF link # None THEN times_link(placement, link) ELSE placement
        p2 == IF joint # None THEN times_origin(p1, joint) ELSE p1
        st1 == IF joint # None /\ joint_placement_differs(st.jp[joint], p2)
               THEN [st EXCEPT !.jp[joint] = p2,
                               !.w = @ \cup {<<joint, "Placement", "">>}]
               ELSE st
        p3 == IF joint # None THEN times_actuation(p2, joint) ELSE p2
        st2 == IF xo_placement_differs(st1.xo[xo], p3)
               THEN [st1 EXCEPT !.xo[xo] = p3,
                                !.w = @ \cup {<<xo, "Placement", "">>}]
               ELSE st1
    IN  place_chain(st2, chain, k + 1, p3)

\* The loop over the chains.
RECURSIVE place_chains(_, _)
place_chains(st, chains) ==
    IF chains = <<>> THEN st
    ELSE place_chains(place_chain(st, Head(chains), 1, chain_start),
                      Tail(chains))

\* Workcell.place_xacro_objects, with the joints' Parent and Child p and c.
place_xacro_objects(p, c) ==
    place_chains(PlaceState,
                 get_xacro_chains(get_xacro_objects, get_joints, p, c))

\* The placements alone.
execute_without_enum ==
    [enum |-> EnumState, place |-> place_xacro_objects(jParent, jChild)]

\* Workcell.execute: the enumerations, then the placements.
execute ==
    LET e == set_joint_enum
    IN  [enum |-> e, place |-> place_xacro_objects(e.p, e.c)]

(***************************************************************************)
(* export_urdf: the <robot> tree and the files of the package.  An XML     *)
(* element is its tag, its attributes and its children.                    *)
(***************************************************************************)
\* No tree: nothing was serialized.
NoTree == [name |-> "", children |-> <<>>]

Element(tag, attrib, children) ==
    [tag |-> tag, attrib |-> attrib, children |-> children]

\* urdf_utils.urdf_origin_from_placement
urdf_origin_from_placement(placement) ==
    Element("origin", [xyz |-> placement.t, rpy |-> placement.r], <<>>)

\* XacroObject.Proxy.export_urdf(): the include of the object's file and the
\* call of its macro.
xacro_export_urdf(x) ==
    <<Element("xmlns:include", [filename |-> xoInclude[x]], <<>>),
      Element("xacro:" \o x, [prefix |-> x], <<>>)>>

\* The source directory of the ROS workspace.
WorkspaceSrc == <<"ws", "src">>

\* wb_utils.remove_ros_workspace
remove_ros_workspace(path) ==
    IF Len(path) >= Len(WorkspaceSrc)
       /\ SubSeq(path, 1, Len(WorkspaceSrc)) = WorkspaceSrc
    THEN SubSeq(path, Len(WorkspaceSrc) + 1, Len(path))
    ELSE path

\* wb_utils.get_rel_and_abs_path
get_rel_and_abs_path(path) ==
    [rel |-> remove_ros_workspace(path),
     abs |-> WorkspaceSrc \o remove_ros_workspace(path)]

\* ros_utils.split_package_path
split_package_path(path) ==
    [package_parent |-> SubSeq(path, 1, Len(path) - 1),
     package_name   |-> path[Len(path)]]

\* get_valid_urdf_name(ros_name(obj)) and get_valid_filename(ros_name(obj)) of
\* a workcell labelled "workcell".
robot_name == "workcell"

urdf_file == robot_name \o ".urdf.xacro"

template_files ==
    {<<"package.xml">>, <<"CMakeLists.txt">>, <<"launch", "display.launch.py">>,
     <<"rviz", "robot_description.rviz">>}

\* The check left out.
output_path_never_empty == FALSE

\* not obj.OutputPath
output_path_empty == OutputPath = <<>>

\* hasallattr(obj, ['OutputPath', 'RootLink']): init_properties adds both and
\* nothing removes them.
hasallattr == TRUE

\* The loop over the children of a xacro object's fragment.
RECURSIVE splice_children(_, _)
splice_children(acc, xacro_et) ==
    IF xacro_et = <<>> THEN acc
    ELSE LET child_et == Head(xacro_et)
         IN  splice_children(
                 [includes |->
                      IF /\ child_et.tag = "xmlns:include"
                         /\ child_et.attrib.filename \notin Elems(acc.includes)
                      THEN Append(acc.includes, child_et.attrib.filename)
                      ELSE acc.includes,
                  robot |-> Append(acc.robot, child_et)],
                 Tail(xacro_et))

\* The synthesized parent taken to be 'world' whatever RootLink is.
joint_parent_link_world(a) ==
    IF a.attached_by # None THEN jParent[a.attached_by] ELSE "world"

\* parent_link of the joint attaching a xacro object
joint_parent_link(a) ==
    IF a.attached_by # None THEN jParent[a.attached_by] ELSE RootLink

\* child_link of the joint attaching a xacro object
joint_child_link(a) ==
    IF a.attached_by # None THEN jChild[a.attached_by]
    ELSE root_link(a.xacro_object)

\* origin of the joint attaching a xacro object
joint_origin(a) ==
    IF a.attached_by # None THEN jOrigin[a.attached_by]
    ELSE xoPlacement[a.xacro_object]

\* The joint attaching the xacro object of attachment a.
joint_et(a) ==
    Element("joint",
            [name |-> joint_parent_link(a) \o "_to_" \o joint_child_link(a),
             type |-> "fixed"],
            <<Element("parent", [link |-> joint_parent_link(a)], <<>>),
              Element("child", [link |-> joint_child_link(a)], <<>>),
              urdf_origin_from_placement(joint_origin(a))>>)

\* The loop over the attachments, from attachment k on.
RECURSIVE export_attachments(_, _, _)
export_attachments(acc, attachments, k) ==
    IF k > Len(attachments) THEN acc
    ELSE LET spliced ==
                 splice_children(acc,
                     xacro_export_urdf(attachments[k].xacro_object))
         IN  export_attachments(
                 [spliced EXCEPT !.robot = Append(@, joint_et(attachments[k]))],
                 attachments, k + 1)

\* The <robot> tree: the comment, the root link, then per attachment the
\* xacro object's children and its joint.
export_tree ==
    LET attachments ==
            get_xacro_object_attachments(get_xacro_objects, get_joints,
                                         jParent, jChild)
        start == [includes |-> <<>>,
                  robot |-> <<Element("comment",
                                      [text |-> "Generated by CROSS"], <<>>),
                              Element("link", [name |-> RootLink], <<>>)>>]
    IN  [name |-> robot_name,
         children |-> export_attachments(start, attachments, 1).robot]

\* The directories output_path.mkdir(parents=True) and save_xml make.
made_dirs(output_path) ==
    {SubSeq(output_path, 1, n) : n \in 1..Len(output_path)}
        \cup {output_path \o <<"urdf">>}

\* The files save_xml and export_templates write.
written_files(output_path) ==
    LET pkg == split_package_path(output_path)
    IN  {output_path \o <<"urdf", urdf_file>>}
            \cup {pkg.package_parent \o <<pkg.package_name>> \o t :
                     t \in template_files}

\* Workcell.export_urdf, from the current state.
export_urdf ==
    LET nothing == [warning |-> "", OutputPath |-> OutputPath, dirs |-> dirs,
                    files |-> files, robot_et |-> NoTree]
        paths == get_rel_and_abs_path(OutputPath)
    IN  IF ~is_ready THEN nothing
        ELSE IF ~hasallattr THEN nothing
        ELSE IF output_path_empty
        THEN [nothing EXCEPT !.warning = "Property OutputPath cannot be empty"]
        ELSE [warning |-> "",
              OutputPath |-> IF paths.rel # OutputPath THEN paths.rel
                             ELSE OutputPath,
              dirs |-> dirs \cup made_dirs(paths.abs),
              files |-> files \cup written_files(paths.abs),
              robot_et |-> export_tree]

\* Workcell.onChanged(obj, 'OutputPath') after the host has set the property
\* to path: the path made relative to the workspace.
onChanged_OutputPath(path) ==
    IF remove_ros_workspace(path) # path THEN remove_ros_workspace(path)
    ELSE path

(***************************************************************************)
(* The state after construction: Workcell.__init__ on a new, empty group,  *)
(* and the defaults of the objects the document creates.                   *)
(***************************************************************************)
DefaultFile(x) == x \o ".xacro"

\* The enumeration of a new joint's Parent or Child: no choice yet, and the
\* value unset.
NoChoices == <<>>

Init ==
    /\ ready = TRUE
    /\ Group = <<>>
    /\ RootLink = "world"
    /\ OutputPath = <<>>
    /\ nlinks = [x \in XacroObjs |-> 1]
    /\ xoPlacement = [x \in XacroObjs |-> Identity]
    /\ xoInclude = [x \in XacroObjs |-> DefaultFile(x)]
    /\ linkPlacement = [l \in AllLinks |-> Identity]
    /\ jParentEnum = [j \in Joints |-> NoChoices]
    /\ jParent = [j \in Joints |-> ""]
    /\ jChildEnum = [j \in Joints |-> NoChoices]
    /\ jChild = [j \in Joints |-> ""]
    /\ jOrigin = [j \in Joints |-> Identity]
    /\ jAct = [j \in Joints |-> Identity]
    /\ jPlacement = [j \in Joints |-> Identity]
    /\ writes = {}
    /\ lastOp = "init"
    /\ rerun = FALSE
    /\ warning = ""
    /\ dirs = {}
    /\ files = {}
    /\ robot_et = NoTree

(***************************************************************************)
(* The host's operations on the document.                                  *)
(***************************************************************************)
\* An operation other than export_urdf warns of nothing and serializes nothing.
NoExport == warning' = "" /\ robot_et' = NoTree

\* A host operation is no handler of the workcell: it leaves no writes.
HostDone == lastOp' = "host" /\ rerun' = FALSE /\ writes' = {} /\ NoExport

\* The document creates object o and adds it to the workcell's Group.
AddObject(o) ==
    /\ o \notin Elems(Group)
    /\ Len(Group) < MaxGroup
    /\ Group' = Append(Group, o)
    /\ HostDone
    /\ UNCHANGED <<ready, RootLink, OutputPath, xoVars, enumVars,
                   jointGeomVars, jPlacement, fsVars>>

\* The document removes object o: it leaves the Group and is destroyed.
RemoveObject(o) ==
    /\ o \in Elems(Group)
    /\ Group' = Filter(Group, Objects \ {o})
    /\ IF o \in XacroObjs
       THEN /\ nlinks' = [nlinks EXCEPT ![o] = 1]
            /\ xoPlacement' = [xoPlacement EXCEPT ![o] = Identity]
            /\ xoInclude' = [xoInclude EXCEPT ![o] = DefaultFile(o)]
            /\ linkPlacement' =
                   [l \in AllLinks |->
                       IF l \in Elems(LinkTable[o]) THEN Identity
                       ELSE linkPlacement[l]]
            /\ UNCHANGED <<enumVars, jointGeomVars, jPlacement>>
       ELSE /\ jParentEnum' = [jParentEnum EXCEPT ![o] = NoChoices]
            /\ jParent' = [jParent EXCEPT ![o] = ""]
            /\ jChildEnum' = [jChildEnum EXCEPT ![o] = NoChoices]
            /\ jChild' = [jChild EXCEPT ![o] = ""]
            /\ jOrigin' = [jOrigin EXCEPT ![o] = Identity]
            /\ jAct' = [jAct EXCEPT ![o] = Identity]
            /\ jPlacement' = [jPlacement EXCEPT ![o] = Identity]
            /\ UNCHANGED xoVars
    /\ HostDone
    /\ UNCHANGED <<ready, RootLink, OutputPath, fsVars>>

\* A xacro object's file changes: it defines n links.
SetLinkCount(x, n) ==
    /\ x \in Elems(Group)
    /\ n # nlinks[x]
    /\ nlinks' = [nlinks EXCEPT ![x] = n]
    /\ HostDone
    /\ UNCHANGED <<wcVars, xoPlacement, xoInclude, linkPlacement, enumVars,
                   jointGeomVars, jPlacement, fsVars>>

\* The user edits RootLink.
SetRootLink(v) ==
    /\ v # RootLink
    /\ RootLink' = v
    /\ HostDone
    /\ UNCHANGED <<ready, Group, OutputPath, xoVars, enumVars, jointGeomVars,
                   jPlacement, fsVars>>

\* The user selects one of the choices of a joint's Parent.
SelectParent(j, v) ==
    /\ j \in Elems(Group)
    /\ v \in Elems(jParentEnum[j])
    /\ v # jParent[j]
    /\ jParent' = [jParent EXCEPT ![j] = v]
    /\ HostDone
    /\ UNCHANGED <<wcVars, xoVars, jParentEnum, jChildEnum, jChild,
                   jointGeomVars, jPlacement, fsVars>>

\* The user selects one of the choices of a joint's Child.
SelectChild(j, v) ==
    /\ j \in Elems(Group)
    /\ v \in Elems(jChildEnum[j])
    /\ v # jChild[j]
    /\ jChild' = [jChild EXCEPT ![j] = v]
    /\ HostDone
    /\ UNCHANGED <<wcVars, xoVars, jParentEnum, jParent, jChildEnum,
                   jointGeomVars, jPlacement, fsVars>>

\* The user edits a joint's Origin.
SetOrigin(j, p) ==
    /\ j \in Elems(Group)
    /\ p # jOrigin[j]
    /\ jOrigin' = [jOrigin EXCEPT ![j] = p]
    /\ HostDone
    /\ UNCHANGED <<wcVars, xoVars, enumVars, jAct, jPlacement, fsVars>>

\* A joint is actuated.
SetActuation(j, p) ==
    /\ j \in Elems(Group)
    /\ p # jAct[j]
    /\ jAct' = [jAct EXCEPT ![j] = p]
    /\ HostDone
    /\ UNCHANGED <<wcVars, xoVars, enumVars, jOrigin, jPlacement, fsVars>>

\* A link of a grouped xacro object gets another placement.
SetLinkPlacement(x, i, p) ==
    /\ x \in Elems(Group)
    /\ i \in 1..nlinks[x]
    /\ p # linkPlacement[LinkTable[x][i]]
    /\ linkPlacement' = [linkPlacement EXCEPT ![LinkTable[x][i]] = p]
    /\ HostDone
    /\ UNCHANGED <<wcVars, nlinks, xoPlacement, xoInclude, enumVars,
                   jointGeomVars, jPlacement, fsVars>>

\* The user moves a xacro object.
MoveXacroObject(x, p) ==
    /\ x \in Elems(Group)
    /\ p # xoPlacement[x]
    /\ xoPlacement' = [xoPlacement EXCEPT ![x] = p]
    /\ HostDone
    /\ UNCHANGED <<wcVars, nlinks, xoInclude, linkPlacement, enumVars,
                   jointGeomVars, jPlacement, fsVars>>

\* A xacro object is pointed at another xacro file.
SetXacroFile(x, f) ==
    /\ x \in Elems(Group)
    /\ f # xoInclude[x]
    /\ xoInclude' = [xoInclude EXCEPT ![x] = f]
    /\ HostDone
    /\ UNCHANGED <<wcVars, nlinks, xoPlacement, linkPlacement, enumVars,
                   jointGeomVars, jPlacement, fsVars>>

\* The user edits OutputPath; Workcell.onChanged makes it relative.
SetOutputPath(path) ==
    /\ onChanged_OutputPath(path) # OutputPath
    /\ OutputPath' = onChanged_OutputPath(path)
    /\ HostDone
    /\ UNCHANGED <<ready, Group, RootLink, xoVars, enumVars, jointGeomVars,
                   jPlacement, fsVars>>

\* The document is reloaded: the proxy is rebuilt by __setstate__ and does
\* not hold its object until onDocumentRestored.
DocumentReload ==
    /\ ready
    /\ ready' = FALSE
    /\ HostDone
    /\ UNCHANGED <<Group, RootLink, OutputPath, xoVars, enumVars,
                   jointGeomVars, jPlacement, fsVars>>

\* Workcell.onDocumentRestored: __init__ again.
OnDocumentRestored ==
    /\ ~ready
    /\ ready' = TRUE
    /\ HostDone
    /\ UNCHANGED <<Group, RootLink, OutputPath, xoVars, enumVars,
                   jointGeomVars, jPlacement, fsVars>>

(***************************************************************************)
(* The workcell's handlers.                                                *)
(***************************************************************************)
SetJointEnum ==
    LET e == set_joint_enum
    IN  /\ jParentEnum' = e.pe
        /\ jParent' = e.p
        /\ jChildEnum' = e.ce
        /\ jChild' = e.c
        /\ writes' = e.w
        /\ lastOp' = "set_joint_enum"
        /\ NoExport
        /\ rerun' = (lastOp \in {"set_joint_enum", "execute"})
        /\ UNCHANGED <<wcVars, xoVars, jointGeomVars, jPlacement, fsVars>>

PlaceXacroObjects ==
    LET pl == place_xacro_objects(jParent, jChild)
    IN  /\ xoPlacement' = pl.xo
        /\ jPlacement' = pl.jp
        /\ writes' = pl.w
        /\ lastOp' = "place_xacro_objects"
        /\ NoExport
        /\ rerun' = (lastOp \in {"place_xacro_objects", "execute"})
        /\ UNCHANGED <<wcVars, nlinks, xoInclude, linkPlacement, enumVars,
                       jointGeomVars, fsVars>>

Execute ==
    LET ex == execute
    IN  /\ jParentEnum' = ex.enum.pe
        /\ jParent' = ex.enum.p
        /\ jChildEnum' = ex.enum.ce
        /\ jChild' = ex.enum.c
        /\ xoPlacement' = ex.place.xo
        /\ jPlacement' = ex.place.jp
        /\ writes' = ex.enum.w \cup ex.place.w
        /\ lastOp' = "execute"
        /\ NoExport
        /\ rerun' = (lastOp = "execute")
        /\ UNCHANGED <<wcVars, nlinks, xoInclude, linkPlacement,
                       jointGeomVars, fsVars>>

ExportUrdf ==
    LET ex == export_urdf
    IN  /\ warning' = ex.warning
        /\ OutputPath' = ex.OutputPath
        /\ dirs' = ex.dirs
        /\ files' = ex.files
        /\ robot_et' = ex.robot_et
        /\ writes' = IF ex.OutputPath # OutputPath
                     THEN {<<"workcell", "OutputPath", "">>} ELSE {}
        /\ lastOp' = "export_urdf"
        /\ rerun' = FALSE
        /\ UNCHANGED <<ready, Group, RootLink, xoVars, enumVars,
                       jointGeomVars, jPlacement>>

(***************************************************************************)
(* The workcell from its construction on: the host edits the Group, the    *)
(* link sets, RootLink and the joints' selections, and recomputes.         *)
(***************************************************************************)
Next ==
    \/ \E o \in SpecObjects : AddObject(o)
    \/ \E o \in Objects : RemoveObject(o)
    \/ \E x \in XacroObjs, n \in 1..MaxLinks : SetLinkCount(x, n)
    \/ \E v \in RootNames : SetRootLink(v)
    \/ \E j \in Joints, v \in AllLinks \cup RootNames \cup {""} :
          SelectParent(j, v)
    \/ \E j \in Joints, v \in AllLinks \cup {""} : SelectChild(j, v)
    \/ DocumentReload
    \/ OnDocumentRestored
    \/ SetJointEnum
    \/ Execute

Spec == Init /\ [][Next]_vars

(***************************************************************************)
(* A populated workcell whose geometry the host edits: three xacro objects *)
(* and two joints, the enumerations as set_joint_enum leaves them.  Joint  *)
(* j1 attaches xb and joint j2 attaches xc, each to the root link, to a    *)
(* link of another xacro object (nested, side by side or in a cycle) or to *)
(* no parent yet; xa hangs on no joint.                                    *)
(***************************************************************************)
PlaceGroup == <<"xa", "xb", "xc", "j1", "j2">>

PlaceParents == <<"", "world", "a0", "b0", "c0">>

PlaceChildren == <<"", "a0", "b0", "c0">>

InitPlace ==
    /\ ready = TRUE
    /\ Group = PlaceGroup
    /\ RootLink = "world"
    /\ OutputPath = <<>>
    /\ nlinks = [x \in XacroObjs |-> 1]
    /\ xoPlacement = [x \in XacroObjs |-> Identity]
    /\ xoInclude = [x \in XacroObjs |-> DefaultFile(x)]
    /\ linkPlacement = [l \in AllLinks |-> Identity]
    /\ jParentEnum = [j \in Joints |-> PlaceParents]
    /\ jParent \in {[j1 |-> p1, j2 |-> p2] :
                       p1 \in {"", "a0", "c0"}, p2 \in {"world", "a0", "b0"}}
    /\ jChildEnum = [j \in Joints |-> PlaceChildren]
    /\ jChild = [j1 |-> "b0", j2 |-> "c0"]
    /\ jOrigin = [j \in Joints |-> Identity]
    /\ jAct = [j \in Joints |-> Identity]
    /\ jPlacement = [j \in Joints |-> Identity]
    /\ writes = {}
    /\ lastOp = "init"
    /\ rerun = FALSE
    /\ warning = ""
    /\ dirs = {}
    /\ files = {}
    /\ robot_et = NoTree

NextPlace ==
    \/ \E j \in Joints : SetOrigin(j, IF jOrigin[j] = Identity THEN Flip ELSE Identity)
    \/ \E j \in Joints : SetActuation(j, IF jAct[j] = Identity THEN Shift ELSE Identity)
    \/ \E x \in {"xa", "xb"} :
          SetLinkPlacement(x, 1,
              IF linkPlacement[root_link(x)] = Identity THEN Shift ELSE Identity)
    \/ \E x \in {"xa"} :
          MoveXacroObject(x, IF xoPlacement[x] = Identity THEN Shift ELSE Identity)
    \/ PlaceXacroObjects
    \/ Execute

SpecPlace == InitPlace /\ [][NextPlace]_vars

(***************************************************************************)
(* A workcell that is exported: one xacro object alone, or two and a joint *)
(* with fresh enumerations.  The host edits the export's inputs.           *)
(***************************************************************************)
ExportGroups == {<<"xa">>, <<"xa", "xb", "j1">>}

PathChoices == {<<>>, <<"pkg">>, <<"ws", "src", "pkg">>}

InitExport ==
    /\ ready = TRUE
    /\ Group \in ExportGroups
    /\ RootLink = "world"
    /\ OutputPath = <<>>
    /\ nlinks = [x \in XacroObjs |-> 1]
    /\ xoPlacement = [x \in XacroObjs |-> Identity]
    /\ xoInclude = [x \in XacroObjs |-> DefaultFile(x)]
    /\ linkPlacement = [l \in AllLinks |-> Identity]
    /\ jParentEnum =
           [j \in Joints |->
               IF j \in Elems(Group) THEN <<"", "world", "a0", "b0">>
               ELSE NoChoices]
    /\ jParent = [j \in Joints |-> ""]
    /\ jChildEnum =
           [j \in Joints |->
               IF j \in Elems(Group) THEN <<"", "a0", "b0">> ELSE NoChoices]
    /\ jChild = [j \in Joints |-> ""]
    /\ jOrigin = [j \in Joints |-> Identity]
    /\ jAct = [j \in Joints |-> Identity]
    /\ jPlacement = [j \in Joints |-> Identity]
    /\ writes = {}
    /\ lastOp = "init"
    /\ rerun = FALSE
    /\ warning = ""
    /\ dirs = {}
    /\ files = {}
    /\ robot_et = NoTree

NextExport ==
    \/ \E path \in PathChoices : SetOutputPath(path)
    \/ \E v \in RootNames \cup {""} : SetRootLink(v)
    \/ \E x \in XacroObjs, y \in XacroObjs : SetXacroFile(x, DefaultFile(y))
    \/ \E x \in XacroObjs :
          MoveXacroObject(x, IF xoPlacement[x] = Identity THEN Shift ELSE Identity)
    \/ \E j \in Joints : SetOrigin(j, IF jOrigin[j] = Identity THEN Flip ELSE Identity)
    \/ \E j \in Joints, v \in AllLinks \cup RootNames \cup {""} :
          SelectParent(j, v)
    \/ \E j \in Joints, v \in AllLinks \cup {""} : SelectChild(j, v)
    \/ DocumentReload
    \/ OnDocumentRestored
    \/ ExportUrdf

SpecExport == InitExport /\ [][NextExport]_vars

(***************************************************************************)
(* Properties of place_xacro_objects.                                      *)
(***************************************************************************)
\* The chains of the current state.
CurrentChains ==
    get_xacro_chains(get_xacro_objects, get_joints, jParent, jChild)

\* What one attachment contributes: link Placement * Origin * actuation,
\* a missing link or joint counting as the identity.
ChainTerm(a) ==
    LET L == IF a.attached_to = None THEN Identity
             ELSE linkPlacement[a.attached_to]
        O == IF a.attached_by = None THEN Identity ELSE jOrigin[a.attached_by]
        A == IF a.attached_by = None THEN Identity ELSE jAct[a.attached_by]
    IN  Mul(Mul(L, O), A)

RECURSIVE ChainProduct(_, _)
ChainProduct(chain, k) ==
    IF k = 0 THEN Identity
    ELSE Mul(ChainProduct(chain, k - 1), ChainTerm(chain[k]))

\* C1: after place_xacro_objects, the Placement of the k-th xacro object of
\* every chain is the product, in traversal order from the identity, of
\* (link Placement * joint Origin * actuation placement) over attachments
\* 1..k of the chain.
C1_PlacementIsChainProduct ==
    lastOp = "place_xacro_objects" =>
        LET chains == CurrentChains
        IN  \A i \in 1..Len(chains) :
                \A k \in 1..Len(chains[i]) :
                    xoPlacement[chains[i][k].xacro_object]
                        = ChainProduct(chains[i], k)

\* A nested chain of three attachments has been placed: the directly-rooted
\* object, which the user had moved, back at the identity and the two others
\* elsewhere.
C1_Witness ==
    /\ lastOp = "place_xacro_objects"
    /\ \E i \in 1..Len(CurrentChains) :
          LET ch == CurrentChains[i]
          IN  /\ Len(ch) = 3
              /\ ch[1].attached_by = None
              /\ xoPlacement[ch[1].xacro_object] = Identity
              /\ <<ch[1].xacro_object, "Placement", "">> \in writes
              /\ xoPlacement[ch[2].xacro_object] # Identity
              /\ xoPlacement[ch[3].xacro_object]
                     \notin {Identity, xoPlacement[ch[2].xacro_object]}
              /\ jOrigin[ch[2].attached_by] = Flip
              /\ linkPlacement[ch[3].attached_to] = Shift

\* C2: a run of place_xacro_objects right after a run of it (alone or within
\* execute), nothing changed in between, writes no Placement.
C2_SecondRunWritesNothing ==
    (lastOp = "place_xacro_objects" /\ rerun) => writes = {}

\* A second run on a workcell whose joints and attached objects were moved
\* by the first.
C2_Witness ==
    /\ lastOp = "place_xacro_objects"
    /\ rerun
    /\ writes = {}
    /\ \E i \in 1..Len(CurrentChains) :
          /\ Len(CurrentChains[i]) = 3
          /\ \A k \in 2..3 :
                /\ jPlacement[CurrentChains[i][k].attached_by] # Identity
                /\ xoPlacement[CurrentChains[i][k].xacro_object] # Identity

(***************************************************************************)
(* Properties of set_joint_enum.                                           *)
(***************************************************************************)
GroupJoints == Joints \cap Elems(Group)

GroupXacros == SelectSeq(Group, LAMBDA o : o \in XacroObjs)

RECURSIVE FlatLinks(_)
FlatLinks(xs) ==
    IF xs = <<>> THEN <<>>
    ELSE [i \in 1..nlinks[Head(xs)] |-> LinkTable[Head(xs)][i]]
            \o FlatLinks(Tail(xs))

\* '' plus RootLink plus every link name of every xacro object, in Group order.
ExpectedParents == <<"", RootLink>> \o FlatLinks(GroupXacros)

\* '' plus the root link of every xacro object, in Group order.
ExpectedChildren ==
    [i \in 1..(Len(GroupXacros) + 1) |->
        IF i = 1 THEN "" ELSE LinkTable[GroupXacros[i - 1]][1]]

EnumsCurrent ==
    \A j \in GroupJoints :
        /\ jParentEnum[j] = ExpectedParents
        /\ jChildEnum[j] = ExpectedChildren

\* C3: after set_joint_enum on a ready workcell, every Joint of the Group has
\* as Parent choices '' plus RootLink plus every link name of every
\* XacroObject of the Group, and as Child choices '' plus every XacroObject's
\* root link, both in Group order.
C3_EnumsAfterSetJointEnum ==
    (lastOp = "set_joint_enum" /\ ready) => EnumsCurrent

\* After set_joint_enum, a joint offers the renamed root link and the links
\* of two xacro objects, the later-created object first in the Group.
C3_Witness ==
    /\ lastOp = "set_joint_enum"
    /\ ready
    /\ RootLink = "base"
    /\ "j1" \in GroupJoints
    /\ jParentEnum["j1"] = <<"", "base", "b0", "a0", "a1">>
    /\ jChildEnum["j1"] = <<"", "b0", "a0">>

\* C4 as claimed: in every reachable state every Joint's Parent and Child
\* enumerations reflect the current link names and the current RootLink.
C4_EnumsAlwaysCurrent == EnumsCurrent

\* C4 amended: right after execute on a ready workcell every Joint's Parent
\* and Child enumerations reflect the current link names and RootLink.
C4_EnumsCurrentAfterExecute ==
    (lastOp = "execute" /\ ready) => EnumsCurrent

\* execute has refreshed enumerations that host operations had left stale.
C4_Witness ==
    /\ lastOp = "execute"
    /\ ready
    /\ RootLink = "base"
    /\ "j1" \in GroupJoints
    /\ Len(GroupXacros) = 2
    /\ \E w \in writes : w[1] = "j1" /\ w[2] = "Parent"
    /\ jParentEnum["j1"] = ExpectedParents

\* C5: set_joint_enum applied right after an application of it (alone or
\* within execute) leaves every enumeration as it was and writes nothing.
C5_SecondCallWritesNothing ==
    [][(lastOp \in {"set_joint_enum", "execute"} /\ lastOp' = "set_joint_enum")
          => /\ jParentEnum' = jParentEnum
             /\ jChildEnum' = jChildEnum
             /\ writes' = {}]_vars

\* A second application on a ready workcell whose joint has five choices.
C5_Witness ==
    /\ lastOp = "set_joint_enum"
    /\ rerun
    /\ ready
    /\ writes = {}
    /\ "j1" \in GroupJoints
    /\ Len(jParentEnum["j1"]) = 5
    /\ jParent["j1"] # ""

\* C6: when set_joint_enum replaces a Joint's Parent (Child) enumeration by a
\* different one, the selected Parent (Child) is unchanged whenever it is a
\* member of the new enumeration.
C6_ValidSelectionKept ==
    [][lastOp' \in {"set_joint_enum", "execute"}
          => \A j \in Joints :
                /\ (/\ jParentEnum'[j] # jParentEnum[j]
                    /\ jParent[j] \in Elems(jParentEnum'[j]))
                       => jParent'[j] = jParent[j]
                /\ (/\ jChildEnum'[j] # jChildEnum[j]
                    /\ jChild[j] \in Elems(jChildEnum'[j]))
                       => jChild'[j] = jChild[j]]_vars

\* Both enumerations of a joint were replaced and both selections kept.
C6_Witness ==
    /\ lastOp = "set_joint_enum"
    /\ <<"j1", "Parent", "a0">> \in writes
    /\ <<"j1", "Child", "b0">> \in writes
    /\ jParent["j1"] = "a0"
    /\ jChild["j1"] = "b0"

\* The parent-link set set_joint_enum computes.
ParentLinkSet ==
    {"", RootLink}
        \cup UNION {{LinkTable[x][i] : i \in 1..nlinks[x]} :
                       x \in XacroObjs \cap Elems(Group)}

\* C7: a Joint whose selected Parent is not in the parent-link set that
\* set_joint_enum computes has the unset Parent '' after set_joint_enum.
C7_RemovedParentUnset ==
    [][(lastOp' \in {"set_joint_enum", "execute"} /\ ready)
          => \A j \in GroupJoints :
                jParent[j] \notin ParentLinkSet => jParent'[j] = ""]_vars

\* A joint whose parent was link a1 of a xacro object that still exists but
\* no longer defines a1 is unset.
C7_Witness ==
    /\ lastOp = "set_joint_enum"
    /\ ready
    /\ "xa" \in Elems(Group)
    /\ <<"j1", "Parent", "a1">> \in writes
    /\ jParent["j1"] = ""

(***************************************************************************)
(* Properties of export_urdf.                                              *)
(***************************************************************************)
\* An export_urdf step that exported nothing and changed no property.
NoExportOccurs ==
    /\ dirs' = dirs
    /\ files' = files
    /\ robot_et' = NoTree
    /\ OutputPath' = OutputPath
    /\ RootLink' = RootLink
    /\ Group' = Group
    /\ writes' = {}

\* C8 as claimed: export_urdf on a workcell whose OutputPath or RootLink is
\* not set aborts with a warning, exports nothing and changes no property.
C8_AbortsWhenEitherUnset ==
    [][(lastOp' = "export_urdf" /\ ready
            /\ (OutputPath = <<>> \/ RootLink = ""))
          => (warning' # "" /\ NoExportOccurs)]_vars

\* C8 amended: export_urdf on a ready workcell whose OutputPath is empty
\* aborts with a warning, and on a workcell that is not ready without one;
\* either way it exports nothing and changes no property.
C8_AbortsWhenOutputPathEmpty ==
    [][lastOp' = "export_urdf"
          => /\ (ready /\ OutputPath = <<>>)
                    => (warning' # "" /\ NoExportOccurs)
             /\ ~ready => (warning' = "" /\ NoExportOccurs)]_vars

\* export_urdf has warned on a ready, populated workcell with no OutputPath.
C8_Witness ==
    /\ lastOp = "export_urdf"
    /\ ready
    /\ OutputPath = <<>>
    /\ Len(Group) = 3
    /\ jChild["j1"] = "b0"
    /\ warning # ""
    /\ files = {}
    /\ robot_et = NoTree

\* The elements of the serialized tree with a given tag.
TreeElements(tag) == SelectSeq(robot_et.children, LAMBDA e : e.tag = tag)

IncludeFiles == {DefaultFile(x) : x \in XacroObjs}

\* C9: for every filename, at most one include element with that filename
\* is in the tree export_urdf serializes.
C9_IncludesDeduplicated ==
    lastOp = "export_urdf" =>
        \A f \in IncludeFiles :
            Len(SelectSeq(TreeElements("xmlns:include"),
                          LAMBDA e : e.attrib.filename = f)) <= 1

\* The attachments of the current state.
CurrentAttachments ==
    get_xacro_object_attachments(get_xacro_objects, get_joints,
                                 jParent, jChild)

\* The joint the claim describes for attachment a.
ExpectedJoint(a) ==
    LET real == a.attached_by # None
        P == IF real THEN jParent[a.attached_by] ELSE RootLink
        C == IF real THEN jChild[a.attached_by] ELSE LinkTable[a.xacro_object][1]
        O == IF real THEN jOrigin[a.attached_by] ELSE xoPlacement[a.xacro_object]
    IN  [tag |-> "joint",
         attrib |-> [name |-> P \o "_to_" \o C, type |-> "fixed"],
         children |->
             <<[tag |-> "parent", attrib |-> [link |-> P], children |-> <<>>],
               [tag |-> "child", attrib |-> [link |-> C], children |-> <<>>],
               [tag |-> "origin", attrib |-> [xyz |-> O.t, rpy |-> O.r],
                children |-> <<>>]>>]

\* C10: the tree export_urdf serializes holds exactly one joint per
\* attachment, fixed and named {parent}_to_{child}: from RootLink to the
\* xacro object's root link at the object's Placement when no real joint
\* attaches it, else with the real joint's Parent, Child and Origin.
C10_OneFixedJointPerAttachment ==
    (lastOp = "export_urdf" /\ files # {} /\ robot_et # NoTree) =>
        TreeElements("joint") =
            [i \in 1..Len(CurrentAttachments) |->
                ExpectedJoint(CurrentAttachments[i])]

\* A workcell with one xacro object and no joint was exported: one joint,
\* from the root link to the object's root link, at the identity.
C10_Witness ==
    /\ lastOp = "export_urdf"
    /\ Group = <<"xa">>
    /\ RootLink = "base"
    /\ xoPlacement["xa"] = Identity
    /\ Len(TreeElements("joint")) = 1
    /\ TreeElements("joint")[1].attrib.name = "base_to_a0"
    /\ TreeElements("joint")[1].children[3].attrib = [xyz |-> 0, rpy |-> 0]
    /\ <<"ws", "src", "pkg", "urdf", "workcell.urdf.xacro">> \in files

=============================================================================
